---- MODULE Spec2Model ----
(***************************************************************************)
(* A model of the zero-copy byte-buffer library (fast_buffer.py and        *)
(* zero_buffer.py): the pool of fixed-size blocks, the blocks' write       *)
(* cursor, views and their search / split / strip operations, view groups  *)
(* and the collator.                                                       *)
(*                                                                         *)
(* Bytes are small integers.  A block (Buffer) is a record                 *)
(* [data, writepos]; data is the whole cffi array, stale bytes included.   *)
(* Python's 0-based offsets are kept in every operator; Byte(s, i) reads   *)
(* offset i of a TLA+ sequence.                                            *)
(***************************************************************************)
EXTENDS Integers, Sequences, FiniteSets, TLC

VARIABLES
    \* BufferPool and its blocks (fast_buffer.py)
    freelist,   \* BufferPool._freelist: block ids, None where a slot is empty
    num_free,   \* BufferPool._num_free
    blocks,     \* every Buffer the pool created, by id
    refs,       \* the blocks buffer() has returned to the caller so far
    out,        \* the blocks handed out and not released since
    last,       \* the last call on the pool or a block, and what it answered
    \* a stand-alone Buffer (zero_buffer.py)
    block,      \* the Buffer: [data, writepos]
    call,       \* the last call on it, its argument and what it answered
    \* one call of a view's or a group's method (find, split, strip)
    input,      \* the receiver's bytes and the arguments
    output,     \* what the call has answered so far
    \* BufferCollator (zero_buffer.py); input holds the buffers it draws on
    views,          \* BufferCollator._views
    total_length,   \* BufferCollator._total_length
    appended        \* the views appended since the last collapse, in order

poolVars == <<freelist, num_free, blocks, refs, out, last>>

bufVars == <<block, call>>

ioVars == <<input, output>>

collVars == <<views, total_length, appended>>

vars == <<freelist, num_free, blocks, refs, out, last, block, call,
          input, output, views, total_length, appended>>

(***************************************************************************)
(* Bounds of the model.                                                    *)
(***************************************************************************)
\* BufferPool(capacity, buffer_size): the constructor's two arguments.
PoolCapacity == 2
PoolBufferSize == 1
\* longest byte string handed to add_bytes
MaxInput == 2

\* blocks the model lets exist: the pre-allocated ones and one allocated by
\* buffer() on an empty freelist (the program allocates without limit)
MaxBlocks == PoolCapacity + 1

\* Buffer.allocate(size) of the stand-alone Buffer
BlockSize == 3

Bytes == {1, 2}

\* longest haystack and longest needle of a search
MaxHay == 4
MaxNeedle == 3

\* largest max_splits given to split (-1, unlimited, is always tried)
MaxSplit == 2

\* strip: longest view, longest member of a group, most members of a group
MaxViewLen == 4
MaxMemberLen == 2
MaxMembers == 3

\* the bytes of stripped views (32 is the space) and the explicit trim sets
StripBytes == {32, 97}
StripSets == {{97}, {32, 97}}

\* collator: views appended per cycle, collapses per run
MaxAppends == 3
MaxCycles == 2

\* the blocks the appended views are cut from, each full, and the size of the
\* largest
CollatorBlocks == << <<1, 2, 3>>, <<4, 5>> >>
MaxCollatorBlock == Len(CollatorBlocks[1])

\* the bytes of views split into lines: \n, \r and a letter
LineBytes == {10, 13, 97}

\* the block that is written while views of it exist, as ffi.new makes it,
\* and the number of views created of it
AliasBlock == <<0, 0, 0>>
MaxViews == 3

\* BLOOM_WIDTH = sizeof(long) * 8
BLOOM_WIDTH == 64

\* the bytes of haystacks and needles; 1 and 65 share a bit of the mask
SearchBytes == {1, 2, 65}

\* the bytes written into pooled blocks: NUL bytes, so that a block's array
\* stays what ffi.new made it and only the cursor tells the blocks apart
PoolBytes == {0}

None == 0

Min(a, b) == IF a < b THEN a ELSE b

\* s[i] of a Python byte sequence, 0-based
Byte(s, i) == s[i + 1]

\* s[a:b] of a Python sequence with 0 <= a <= b <= len(s)
Slice(s, a, b) == SubSeq(s, a + 1, b)

SeqsUpTo(S, n) == UNION {[1..k -> S] : k \in 0..n}

PoolInputs == SeqsUpTo(PoolBytes, MaxInput)

Inputs == SeqsUpTo(Bytes, MaxInput)

(***************************************************************************)
(* Buffer (a block).                                                       *)
(***************************************************************************)
\* Buffer.__init__: ffi.new zero-fills the array
NewBuffer(size) == [data |-> [i \in 1..size |-> 0], writepos |-> 0]

capacity(blk) == Len(blk.data)

free(blk) == Len(blk.data) - blk.writepos

\* the writes of both add_bytes and read_from: n bytes of b land at
\* offsets writepos .. writepos + n - 1 and writepos advances by n
Fill(blk, b, n) ==
    [data |-> [i \in 1..Len(blk.data) |->
                 IF blk.writepos < i /\ i <= blk.writepos + n
                 THEN b[i - blk.writepos] ELSE blk.data[i]],
     writepos |-> blk.writepos + n]

add_bytes_NoClamp(blk, b) ==
    IF free(blk) = 0
    THEN [blk |-> blk, ret |-> -1, exc |-> "BufferFull"]
    ELSE [blk |-> Fill(blk, b, Len(b)), ret |-> Len(b), exc |-> "none"]

add_bytes_RaiseOnPartial(blk, b) ==
    IF free(blk) = 0 \/ Len(b) > free(blk)
    THEN [blk |-> blk, ret |-> -1, exc |-> "BufferFull"]
    ELSE [blk |-> Fill(blk, b, Len(b)), ret |-> Len(b), exc |-> "none"]

\* Buffer.add_bytes
add_bytes(blk, b) ==
    IF free(blk) = 0
    THEN [blk |-> blk, ret |-> -1, exc |-> "BufferFull"]
    ELSE LET bytes_written == Min(Len(b), free(blk))
         IN  [blk |-> Fill(blk, b, bytes_written),
              ret |-> bytes_written, exc |-> "none"]

\* Buffer.read_from: res is what read(2) answers for a request of free(blk)
\* bytes (-1, 0, or the number of bytes it placed), b the bytes it placed
read_from(blk, res, b) ==
    IF free(blk) = 0
    THEN [blk |-> blk, ret |-> -1, exc |-> "BufferFull"]
    ELSE IF res = -1 THEN [blk |-> blk, ret |-> -1, exc |-> "OSError"]
    ELSE IF res = 0 THEN [blk |-> blk, ret |-> -1, exc |-> "EOFError"]
    ELSE [blk |-> Fill(blk, b, res), ret |-> res, exc |-> "none"]

(***************************************************************************)
(* BufferPool.                                                             *)
(***************************************************************************)
return_buffer_NoCapacityCheck(fl, nf, b) ==
    [freelist |-> IF nf < Len(fl) THEN [fl EXCEPT ![nf + 1] = b]
                  ELSE Append(fl, b),
     num_free |-> nf + 1]

\* BufferPool.return_buffer
return_buffer(fl, nf, b) ==
    IF nf # PoolCapacity
    THEN [freelist |-> [fl EXCEPT ![nf + 1] = b], num_free |-> nf + 1]
    ELSE [freelist |-> fl, num_free |-> nf]

\* BufferPool.__init__: capacity blocks, all in the freelist; nobody holds a
\* reference yet
PoolInit ==
    /\ blocks = [i \in 1..PoolCapacity |-> NewBuffer(PoolBufferSize)]
    /\ freelist = [i \in 1..PoolCapacity |-> i]
    /\ num_free = PoolCapacity
    /\ refs = {}
    /\ out = {}
    /\ last = [op |-> "init", ret |-> 0, exc |-> "none"]
    /\ block = <<>> /\ call = <<>>
    /\ input = <<>> /\ output = <<>>
    /\ views = <<>> /\ total_length = 0 /\ appended = <<>>

\* BufferPool.buffer, freelist not empty
BufferFromFreelist ==
    /\ num_free # 0
    /\ LET buf == freelist[num_free]
       IN  /\ num_free' = num_free - 1
           /\ freelist' = [freelist EXCEPT ![num_free] = None]
           /\ refs' = refs \cup {buf}
           /\ out' = out \cup {buf}
           /\ last' = [op |-> "buffer", ret |-> buf, exc |-> "none"]
    /\ UNCHANGED <<blocks, bufVars, ioVars, collVars>>

\* BufferPool.buffer, freelist empty: _create_buffer
BufferFresh ==
    /\ num_free = 0
    /\ Len(blocks) < MaxBlocks
    /\ LET buf == Len(blocks) + 1
       IN  /\ blocks' = Append(blocks, NewBuffer(PoolBufferSize))
           /\ refs' = refs \cup {buf}
           /\ out' = out \cup {buf}
           /\ last' = [op |-> "buffer", ret |-> buf, exc |-> "none"]
    /\ UNCHANGED <<freelist, num_free, bufVars, ioVars, collVars>>

\* Buffer.release, on any block buffer() has returned: the caller keeps its
\* reference after a release and nothing stops a second release
Release ==
    \E b \in refs :
       LET r == return_buffer(freelist, num_free, b)
       IN  /\ blocks' = [blocks EXCEPT ![b].writepos = 0]
           /\ freelist' = r.freelist
           /\ num_free' = r.num_free
           /\ out' = out \ {b}
           /\ last' = [op |-> "release", ret |-> 0, exc |-> "none"]
           /\ UNCHANGED <<refs, bufVars, ioVars, collVars>>

\* Buffer.add_bytes on a block the caller holds
AddBytes ==
    \E b \in out, s \in PoolInputs :
       LET r == add_bytes(blocks[b], s)
       IN  /\ blocks' = [blocks EXCEPT ![b] = r.blk]
           /\ last' = [op |-> "add_bytes", ret |-> r.ret, exc |-> r.exc]
           /\ UNCHANGED <<freelist, num_free, refs, out, bufVars, ioVars, collVars>>

\* Buffer.read_from on a block the caller holds
ReadFrom ==
    \E b \in out, res \in -1..PoolBufferSize, s \in [1..PoolBufferSize -> PoolBytes] :
       /\ res <= free(blocks[b])
       /\ LET r == read_from(blocks[b], res, s)
          IN  /\ blocks' = [blocks EXCEPT ![b] = r.blk]
              /\ last' = [op |-> "read_from", ret |-> r.ret, exc |-> r.exc]
              /\ UNCHANGED <<freelist, num_free, refs, out, bufVars, ioVars, collVars>>

PoolNext == BufferFromFreelist \/ BufferFresh \/ Release \/ AddBytes \/ ReadFrom

SpecPool == PoolInit /\ [][PoolNext]_vars

InFreelist(b) == \E i \in 1..Len(freelist) : freelist[i] = b

\* the blocks the pool retains
Retained == {b \in 1..Len(blocks) : InFreelist(b)}

(***************************************************************************)
(* C2: 0 <= _num_free <= capacity in every state, the pool retains at most *)
(* capacity blocks, and a release on a full freelist drops the block       *)
(* without raising and leaves _freelist and _num_free as they were.        *)
(***************************************************************************)
C2_PoolBounded ==
    /\ [](/\ 0 <= num_free /\ num_free <= PoolCapacity
          /\ Len(freelist) = PoolCapacity
          /\ Cardinality(Retained) <= PoolCapacity
          /\ \A i \in 1..Len(freelist) : (freelist[i] # None) <=> (i <= num_free))
    /\ [][(last'.op = "release" /\ num_free = PoolCapacity)
            => /\ freelist' = freelist
               /\ num_free' = num_free
               /\ last'.exc = "none"]_vars

\* a block was released onto a full freelist and dropped: the caller has it,
\* it is not handed out and the pool does not hold it
C2_DroppedAtFull ==
    /\ last.op = "release"
    /\ num_free = PoolCapacity
    /\ \E b \in refs \ out : ~InFreelist(b)

(***************************************************************************)
(* C3: a block handed out by buffer() and not released since is in no slot *)
(* of the freelist (so the pool cannot hand it out a second time).         *)
(***************************************************************************)
C3_HandedOutNotInFreelist == \A b \in out : ~InFreelist(b)

(***************************************************************************)
(* C4: the block buffer() returns has writepos = 0 when it is returned.    *)
(***************************************************************************)
C4_AcquiredAtZero == last.op = "buffer" => blocks[last.ret].writepos = 0

(***************************************************************************)
(* C5: 0 <= writepos <= capacity for every block in every state, and       *)
(* writepos decreases only in a release step, which sets it to 0.          *)
(***************************************************************************)
C5_WriteposBounded ==
    /\ [](\A b \in 1..Len(blocks) :
            0 <= blocks[b].writepos /\ blocks[b].writepos <= capacity(blocks[b]))
    /\ [][\A b \in 1..Len(blocks) :
            blocks'[b].writepos < blocks[b].writepos
               => last'.op = "release" /\ blocks'[b].writepos = 0]_vars

\* a block was filled to its capacity by a partial write, another was reset
\* by release after having been written
C5_FilledAndReset ==
    /\ last.op = "release"
    /\ \E b \in refs : blocks[b].writepos = capacity(blocks[b])
    /\ \E b \in refs \ out : blocks[b].writepos = 0

(***************************************************************************)
(* The stand-alone Buffer of zero_buffer.py.                               *)
(***************************************************************************)
\* Buffer.allocate
BufInit ==
    /\ block = NewBuffer(BlockSize)
    /\ call = [op |-> "allocate", arg |-> <<>>, ret |-> 0, exc |-> "none"]
    /\ freelist = <<>> /\ num_free = 0 /\ blocks = <<>>
    /\ refs = {} /\ out = {} /\ last = <<>>
    /\ input = <<>> /\ output = <<>>
    /\ views = <<>> /\ total_length = 0 /\ appended = <<>>

BufAddBytes ==
    \E s \in Inputs :
       LET r == add_bytes(block, s)
       IN  /\ block' = r.blk
           /\ call' = [op |-> "add_bytes", arg |-> s, ret |-> r.ret, exc |-> r.exc]
           /\ UNCHANGED <<poolVars, ioVars, collVars>>

BufReadFrom ==
    \E res \in -1..BlockSize, s \in [1..BlockSize -> Bytes] :
       /\ res <= free(block)
       /\ LET r == read_from(block, res, s)
          IN  /\ block' = r.blk
              /\ call' = [op |-> "read_from", arg |-> SubSeq(s, 1, r.ret),
                          ret |-> r.ret, exc |-> r.exc]
              /\ UNCHANGED <<poolVars, ioVars, collVars>>

BufNext == BufAddBytes \/ BufReadFrom

SpecBuffer == BufInit /\ [][BufNext]_vars

(***************************************************************************)
(* C6: add_bytes(b) with free > 0 copies the first n = min(len(b), free)   *)
(* bytes of b to offsets writepos .. writepos + n - 1, returns n, advances *)
(* writepos by n and leaves the bytes below the old writepos alone; with   *)
(* free = 0 it raises BufferFull and changes nothing; it raises BufferFull *)
(* in no other case.                                                       *)
(***************************************************************************)
C6_AddBytes ==
    [][call'.op = "add_bytes" =>
         LET b == call'.arg
             n == Min(Len(b), free(block))
         IN  IF free(block) > 0
             THEN /\ call'.exc = "none"
                  /\ call'.ret = n
                  /\ block'.writepos = block.writepos + n
                  /\ \A i \in 0..(n - 1) :
                        Byte(block'.data, block.writepos + i) = Byte(b, i)
                  /\ \A i \in 0..(block.writepos - 1) :
                        Byte(block'.data, i) = Byte(block.data, i)
             ELSE /\ call'.exc = "BufferFull"
                  /\ block' = block]_vars

\* a partial write has happened: add_bytes was given more bytes than were
\* free, wrote some of them and filled the block
C6_PartialWrite ==
    /\ call.op = "add_bytes"
    /\ call.exc = "none"
    /\ 0 < call.ret /\ call.ret < Len(call.arg)
    /\ block.writepos = capacity(block)

(***************************************************************************)
(* BufferView: search.  A view is modelled by the bytes it windows         *)
(* (self._data[0 .. len(self) - 1]); an optional argument is <<>> for None *)
(* and <<k>> for the integer k.  A Bloom mask is the set of its bits.      *)
(***************************************************************************)
NoStop == <<>>

\* Python's truth value of an optional integer (None and 0 are false)
Truthy(opt) == opt # <<>> /\ opt[1] # 0

\* BufferView._bloom_add
_bloom_add(mask, c) == mask \cup {c % BLOOM_WIDTH}

\* BufferView._bloom
_bloom(mask, c) == (c % BLOOM_WIDTH) \in mask

\* memchr(v + start, c, n): the offset in v of the first c among the n bytes
\* from start on, -1 for NULL
memchr(v, start, c, n) ==
    LET hits == {i \in start..(start + n - 1) : Byte(v, i) = c}
    IN  IF hits = {} THEN -1
        ELSE CHOOSE i \in hits : \A k \in hits : i <= k

\* Zero_memrchr(v + start, c, n): the offset of the last c, -1 for NULL
Zero_memrchr(v, start, c, n) ==
    LET hits == {i \in start..(start + n - 1) : Byte(v, i) = c}
    IN  IF hits = {} THEN -1
        ELSE CHOOSE i \in hits : \A k \in hits : i >= k

\* the loop of _make_find_mask, at index i
RECURSIVE find_mask_loop(_, _, _, _)
find_mask_loop(needle, i, mask, skip) ==
    LET mlast == Len(needle) - 1
    IN  IF i >= mlast
        THEN [mask |-> _bloom_add(mask, Byte(needle, mlast)), skip |-> skip]
        ELSE find_mask_loop(needle, i + 1,
                            _bloom_add(mask, Byte(needle, i)),
                            IF Byte(needle, i) = Byte(needle, mlast)
                            THEN mlast - i - 1 ELSE skip)

_make_find_mask_NoAnchorBit(needle) ==
    LET ms == find_mask_loop(needle, 0, {}, (Len(needle) - 1) - 1)
    IN  [mask |-> {Byte(needle, i) % BLOOM_WIDTH : i \in 0..(Len(needle) - 2)},
         skip |-> ms.skip]

\* BufferView._make_find_mask
_make_find_mask(needle) ==
    find_mask_loop(needle, 0, {}, (Len(needle) - 1) - 1)

\* the while loop of _multi_char_find; i is its value at the loop test
RECURSIVE find_loop(_, _, _, _, _, _)
find_loop(v, needle, i, top, mask, skip) ==
    IF ~(i + 1 <= top) THEN -1
    ELSE
      LET m == Len(needle)
          i1 == i + 1
          jump == i1 + m < Len(v) /\ ~_bloom(mask, Byte(v, i1 + m))
      IN  IF Byte(v, i1 + m - 1) = Byte(needle, m - 1)
          THEN IF \A j \in 0..(m - 2) : Byte(v, i1 + j) = Byte(needle, j)
               THEN i1
               ELSE IF jump
                    THEN find_loop(v, needle, i1 + m, top, mask, skip)
                    ELSE find_loop(v, needle, i1 + skip, top, mask, skip)
          ELSE IF jump
               THEN find_loop(v, needle, i1 + m, top, mask, skip)
               ELSE find_loop(v, needle, i1, top, mask, skip)

\* BufferView._multi_char_find
_multi_char_find(v, needle, start, stop, mask, skip) ==
    LET w == (stop - start) - Len(needle)
    IN  find_loop(v, needle, start - 1, start + w, mask, skip)

\* BufferView.find
find(v, needle, start, stop) ==
    LET stop1 == IF Truthy(stop) THEN stop[1] ELSE Len(v)
        start1 == IF start < 0 THEN 0 ELSE start
        stop2 == IF stop1 > Len(v) THEN Len(v) ELSE stop1
    IN  IF stop2 - start1 < 0 THEN -1
        ELSE IF Len(needle) = 0 THEN start1
        ELSE IF Len(needle) = 1
             THEN memchr(v, start1, needle[1], stop2 - start1)
        ELSE LET ms == _make_find_mask(needle)
             IN  _multi_char_find(v, needle, start1, stop2, ms.mask, ms.skip)

\* the loop of _make_rfind_mask, at index i (from len(needle) - 1 down to 1)
RECURSIVE rfind_mask_loop(_, _, _, _)
rfind_mask_loop(needle, i, mask, skip) ==
    IF i <= 0 THEN [mask |-> mask, skip |-> skip]
    ELSE rfind_mask_loop(needle, i - 1,
                         _bloom_add(mask, Byte(needle, i)),
                         IF Byte(needle, i) = Byte(needle, 0)
                         THEN i - 1 ELSE skip)

\* BufferView._make_rfind_mask
_make_rfind_mask(needle) ==
    rfind_mask_loop(needle, Len(needle) - 1,
                    _bloom_add({}, Byte(needle, 0)), Len(needle) - 1)

\* the while loop of _multi_char_rfind; i is its value at the loop test
RECURSIVE rfind_loop(_, _, _, _, _, _)
rfind_loop(v, needle, i, start, mask, skip) ==
    IF ~(i - 1 >= start) THEN -1
    ELSE
      LET m == Len(needle)
          i1 == i - 1
          jump == i1 - 1 >= 0 /\ ~_bloom(mask, Byte(v, i1 - 1))
      IN  IF Byte(v, i1) = Byte(needle, 0)
          THEN IF \A j \in 1..(m - 1) : Byte(v, i1 + j) = Byte(needle, j)
               THEN i1
               ELSE IF jump
                    THEN rfind_loop(v, needle, i1 - m, start, mask, skip)
                    ELSE rfind_loop(v, needle, i1 - skip, start, mask, skip)
          ELSE IF jump
               THEN rfind_loop(v, needle, i1 - m, start, mask, skip)
               ELSE rfind_loop(v, needle, i1, start, mask, skip)

\* BufferView._multi_char_rfind
_multi_char_rfind(v, needle, start, stop, mask, skip) ==
    rfind_loop(v, needle, start + (stop - start - Len(needle)) + 1,
               start, mask, skip)

\* BufferView.rfind
rfind(v, needle, start, stop) ==
    LET stop1 == IF Truthy(stop) THEN stop[1] ELSE Len(v)
        start1 == IF start < 0 THEN 0 ELSE start
        stop2 == IF stop1 > Len(v) THEN Len(v) ELSE stop1
    IN  IF stop2 - start1 < 0 THEN -1
        ELSE IF Len(needle) = 0 THEN start1
        ELSE IF Len(needle) = 1
             THEN Zero_memrchr(v, start1, needle[1], stop2 - start1)
        ELSE LET ms == _make_rfind_mask(needle)
             IN  _multi_char_rfind(v, needle, start1, stop2, ms.mask, ms.skip)

\* a view over any bytes, a non-empty needle, the default range
SearchInit ==
    /\ input \in [v : SeqsUpTo(SearchBytes, MaxHay),
                  needle : SeqsUpTo(SearchBytes, MaxNeedle) \ {<<>>},
                  start : {0}, stop : {NoStop}]
    /\ output = [op |-> "none", ret |-> 0]
    /\ freelist = <<>> /\ num_free = 0 /\ blocks = <<>>
    /\ refs = {} /\ out = {} /\ last = <<>>
    /\ block = <<>> /\ call = <<>>
    /\ views = <<>> /\ total_length = 0 /\ appended = <<>>

Find ==
    /\ output' = [op |-> "find",
                  ret |-> find(input.v, input.needle, input.start, input.stop)]
    /\ UNCHANGED <<input, poolVars, bufVars, collVars>>

RFind ==
    /\ output' = [op |-> "rfind",
                  ret |-> rfind(input.v, input.needle, input.start, input.stop)]
    /\ UNCHANGED <<input, poolVars, bufVars, collVars>>

SearchNext == Find \/ RFind

SpecSearch == SearchInit /\ [][SearchNext]_vars

\* the needle occurs in h at offset i
Occurs(h, n, i) ==
    /\ 0 <= i /\ i + Len(n) <= Len(h)
    /\ \A j \in 0..(Len(n) - 1) : Byte(h, i + j) = Byte(n, j)

Occurrences(h, n) == {i \in 0..Len(h) : Occurs(h, n, i)}

(***************************************************************************)
(* C1: with the default range and 1 <= len(N) <= len(H), find(N) is the    *)
(* smallest offset at which N occurs in H and rfind(N) the largest; each   *)
(* is -1 exactly when N does not occur.                                    *)
(***************************************************************************)
C1_FindFirstRfindLast ==
    (/\ output.op \in {"find", "rfind"}
     /\ 1 <= Len(input.needle) /\ Len(input.needle) <= Len(input.v))
    => LET occ == Occurrences(input.v, input.needle)
       IN  /\ (output.ret = -1) <=> (occ = {})
           /\ occ # {} =>
                /\ output.ret \in occ
                /\ output.op = "find" => \A i \in occ : output.ret <= i
                /\ output.op = "rfind" => \A i \in occ : output.ret >= i

\* a multi-byte needle was found behind a position the scan left by a jump:
\* it occurs once, not at the start, and a byte before it is not in the mask
C1_FoundAfterJump ==
    /\ output.op = "find"
    /\ Len(input.needle) >= 2
    /\ output.ret >= 2
    /\ Cardinality(Occurrences(input.v, input.needle)) = 1
    /\ \E i \in 0..(output.ret - 1) :
          ~_bloom(_make_find_mask(input.needle).mask, Byte(input.v, i))

(***************************************************************************)
(* BufferView: slicing and split.                                          *)
(***************************************************************************)
\* one bound of slice.indices(len), step 1: a negative bound counts from the
\* end, and the result is clamped to 0..len
ClampIndex(len, i) ==
    IF i < 0 THEN (IF i + len < 0 THEN 0 ELSE i + len) ELSE Min(i, len)

\* slice.indices(len) for a slice a:b, b None or an integer
SliceIndices(len, a, b) ==
    [start |-> ClampIndex(len, a),
     stop |-> IF b = <<>> THEN len ELSE ClampIndex(len, b[1])]

\* BufferView.__getitem__ with a slice a:b (step 1): the bytes of the new view
getslice(v, a, b) ==
    LET ix == SliceIndices(Len(v), a, b)
    IN  IF ix.start > ix.stop
        THEN [exc |-> "ValueError", val |-> <<>>]
        ELSE [exc |-> "none", val |-> Slice(v, ix.start, ix.stop)]

\* one resumption of a split generator that is at self[start:]: its state
\* after the next yield
Yield(st, piece, start, maxsplit, done) ==
    IF piece.exc # "none"
    THEN [st EXCEPT !.exc = piece.exc, !.done = TRUE]
    ELSE [st EXCEPT !.pieces = Append(@, piece.val), !.start = start,
                    !.maxsplit = maxsplit, !.done = done]

\* BufferView._split_char, from one yield to the next
_split_char(v, by, st) ==
    LET next == IF st.maxsplit # 0 THEN find(v, by, st.start, NoStop) ELSE -1
    IN  IF st.maxsplit = 0 \/ next = -1
        THEN Yield(st, getslice(v, st.start, <<>>), st.start, st.maxsplit, TRUE)
        ELSE Yield(st, getslice(v, st.start, <<next>>),
                   next + 1, st.maxsplit - 1, FALSE)

_split_multi_char_AdvanceByOne(v, by, st) ==
    LET ms == _make_find_mask(by)
        next == IF st.maxsplit # 0
                THEN _multi_char_find(v, by, st.start, Len(v), ms.mask, ms.skip)
                ELSE -1
    IN  IF st.maxsplit = 0 \/ next < 0
        THEN Yield(st, getslice(v, st.start, <<>>), st.start, st.maxsplit, TRUE)
        ELSE Yield(st, getslice(v, st.start, <<next>>),
                   next + 1, st.maxsplit - 1, FALSE)

\* BufferView._split_multi_char, from one yield to the next
_split_multi_char(v, by, st) ==
    LET ms == _make_find_mask(by)
        next == IF st.maxsplit # 0
                THEN _multi_char_find(v, by, st.start, Len(v), ms.mask, ms.skip)
                ELSE -1
    IN  IF st.maxsplit = 0 \/ next < 0
        THEN Yield(st, getslice(v, st.start, <<>>), st.start, st.maxsplit, TRUE)
        ELSE Yield(st, getslice(v, st.start, <<next>>),
                   next + Len(by), st.maxsplit - 1, FALSE)

\* split(by, maxsplit) called on a view, len(by) >= 1: the generator is
\* created and has not run yet
SplitInit ==
    /\ input \in [v : SeqsUpTo(SearchBytes, MaxHay),
                  by : SeqsUpTo(SearchBytes, MaxNeedle) \ {<<>>},
                  maxsplit : -1..MaxSplit]
    /\ output = [start |-> 0, maxsplit |-> input.maxsplit, pieces |-> <<>>,
                 done |-> FALSE, exc |-> "none"]
    /\ freelist = <<>> /\ num_free = 0 /\ blocks = <<>>
    /\ refs = {} /\ out = {} /\ last = <<>>
    /\ block = <<>> /\ call = <<>>
    /\ views = <<>> /\ total_length = 0 /\ appended = <<>>

\* next() on the generator of a single-byte split
SplitCharNext ==
    /\ Len(input.by) = 1
    /\ ~output.done
    /\ output' = _split_char(input.v, input.by, output)
    /\ UNCHANGED <<input, poolVars, bufVars, collVars>>

\* next() on the generator of a multi-byte split
SplitMultiCharNext ==
    /\ Len(input.by) > 1
    /\ ~output.done
    /\ output' = _split_multi_char(input.v, input.by, output)
    /\ UNCHANGED <<input, poolVars, bufVars, collVars>>

SplitNext == SplitCharNext \/ SplitMultiCharNext

SpecSplit == SplitInit /\ [][SplitNext]_vars

\* the pieces joined with sep between consecutive pieces
RECURSIVE Join(_, _)
Join(pieces, sep) ==
    IF pieces = <<>> THEN <<>>
    ELSE IF Len(pieces) = 1 THEN pieces[1]
    ELSE pieces[1] \o sep \o Join(Tail(pieces), sep)

(***************************************************************************)
(* C7: split(sep, max_splits) yields finitely many pieces (never more than *)
(* len(v) + 1, and nothing raises); once the generator is exhausted, the   *)
(* pieces joined with sep are the bytes of v, and the last piece is what   *)
(* follows the last separator consumed, empty or not.                      *)
(***************************************************************************)
C7_SplitRoundTrip ==
    /\ output.exc = "none"
    /\ Len(output.pieces) <= Len(input.v) + 1
    /\ output.start <= Len(input.v)
    /\ output.done =>
         /\ Join(output.pieces, input.by) = input.v
         /\ output.pieces[Len(output.pieces)]
               = Slice(input.v, output.start, Len(input.v))

\* a multi-byte split consumed two separators and ended with an empty last
\* piece
C7_SplitTwice ==
    /\ output.done
    /\ Len(input.by) >= 2
    /\ Len(output.pieces) = 3
    /\ output.pieces[3] = <<>>

(***************************************************************************)
(* strip / lstrip / rstrip.  The receiver is [kind, views]: a BufferView   *)
(* (kind "view", views = <<its bytes>>) or a BufferGroup (kind "group",    *)
(* views = the bytes of its members).  chars is <<>> for None, <<S>> for a *)
(* byte string with the set of bytes S.                                    *)
(***************************************************************************)
\* chr(ch).isspace() of a one-byte str
isspace(ch) == ch = 32 \/ (9 <= ch /\ ch <= 13)

\* the test of a strip loop: isspace for _strip_none, membership in chars
\* for _strip_chars
Matches(ch, chars) == IF chars = <<>> THEN isspace(ch) ELSE ch \in chars[1]

\* l[i] of a Python list or view: a negative index counts from the end
IndexOK(l, i) == -Len(l) <= i /\ i < Len(l)

GetItem(l, i) == IF i < 0 THEN l[i + Len(l) + 1] ELSE l[i + 1]

\* l[a:b] of a Python list
ListSlice(l, a, b) ==
    LET lo == ClampIndex(Len(l), a)
        hi == ClampIndex(Len(l), b)
    IN  IF lo >= hi THEN <<>> ELSE SubSeq(l, lo + 1, hi)

\* zero_buffer.py, BufferView._strip_none / _strip_chars: the left loop
RECURSIVE z_left(_, _, _, _)
z_left(v, lpos, rpos, chars) ==
    IF lpos < rpos /\ Matches(Byte(v, lpos), chars)
    THEN z_left(v, lpos + 1, rpos, chars) ELSE lpos

\* zero_buffer.py, BufferView._strip_none / _strip_chars: the right loop
RECURSIVE z_right(_, _, _, _)
z_right(v, lpos, rpos, chars) ==
    IF rpos > lpos /\ Matches(Byte(v, rpos - 1), chars)
    THEN z_right(v, lpos, rpos - 1, chars) ELSE rpos

\* zero_buffer.py, BufferView._strip_none / _strip_chars
z_strip(v, chars, left, right) ==
    LET lpos == IF left THEN z_left(v, 0, Len(v), chars) ELSE 0
        rpos == IF right THEN z_right(v, lpos, Len(v), chars) ELSE Len(v)
        r == getslice(v, lpos, <<rpos>>)
    IN  [exc |-> r.exc, self |-> [kind |-> "view", views |-> <<r.val>>]]

(* fast_buffer.py: the iterators.  A view's iterator is [idx], a group's   *)
(* is [view_idx, buf_idx]; a step answers [exc, it, ch], it being the      *)
(* iterator as the step left it.                                           *)

\* iter(self): _BufferViewIterator.__init__ / _BufferGroupIterator.__init__
iter(self) ==
    IF self.kind = "view" THEN [exc |-> "none", it |-> [idx |-> 0]]
    ELSE [exc |-> "none", it |-> [view_idx |-> 0, buf_idx |-> 0]]

\* reversed(self): _ReversedBufferViewIterator.__init__ /
\* _ReversedBufferGroupIterator.__init__
reversed(self) ==
    IF self.kind = "view"
    THEN [exc |-> "none", it |-> [idx |-> Len(self.views[1])]]
    ELSE IF ~IndexOK(self.views, -1)
         THEN [exc |-> "IndexError", it |-> <<>>]
         ELSE [exc |-> "none",
               it |-> [view_idx |-> Len(self.views) - 1,
                       buf_idx |-> Len(GetItem(self.views, -1)) - 1]]

\* _BufferViewIterator.__next__
bv_next(v, it) ==
    IF ~IndexOK(v, it.idx)
    THEN [exc |-> "StopIteration", it |-> it, ch |-> 0]
    ELSE [exc |-> "none", it |-> [idx |-> it.idx + 1], ch |-> GetItem(v, it.idx)]

\* _ReversedBufferViewIterator.__next__
bv_rnext(v, it) ==
    LET idx == it.idx - 1
    IN  IF ~IndexOK(v, idx)
        THEN [exc |-> "StopIteration", it |-> [idx |-> idx], ch |-> 0]
        ELSE [exc |-> "none", it |-> [idx |-> idx], ch |-> GetItem(v, idx)]

\* _BufferGroupIterator.__next__
RECURSIVE bg_next(_, _)
bg_next(vs, it) ==
    IF ~IndexOK(vs, it.view_idx)
    THEN [exc |-> "StopIteration", it |-> it, ch |-> 0]
    ELSE LET buf == GetItem(vs, it.view_idx)
         IN  IF ~IndexOK(buf, it.buf_idx)
             THEN bg_next(vs, [view_idx |-> it.view_idx + 1, buf_idx |-> 0])
             ELSE [exc |-> "none",
                   it |-> [it EXCEPT !.buf_idx = @ + 1],
                   ch |-> GetItem(buf, it.buf_idx)]

\* _ReversedBufferGroupIterator.__next__
RECURSIVE bg_rnext(_, _)
bg_rnext(vs, it) ==
    IF it.view_idx < 0
    THEN [exc |-> "StopIteration", it |-> it, ch |-> 0]
    ELSE IF ~IndexOK(vs, it.view_idx)
    THEN [exc |-> "IndexError", it |-> it, ch |-> 0]
    ELSE IF it.buf_idx < 0
    THEN IF ~IndexOK(vs, it.view_idx - 1)
         THEN [exc |-> "IndexError",
               it |-> [it EXCEPT !.view_idx = @ - 1], ch |-> 0]
         ELSE bg_rnext(vs, [view_idx |-> it.view_idx - 1,
                            buf_idx |-> Len(GetItem(vs, it.view_idx - 1)) - 1])
    ELSE LET buf == GetItem(vs, it.view_idx)
         IN  IF ~IndexOK(buf, it.buf_idx)
             THEN [exc |-> "IndexError", it |-> it, ch |-> 0]
             ELSE [exc |-> "none",
                   it |-> [it EXCEPT !.buf_idx = @ - 1],
                   ch |-> GetItem(buf, it.buf_idx)]

\* next(lpos)
it_next(self, it) ==
    IF self.kind = "view" THEN bv_next(self.views[1], it)
    ELSE bg_next(self.views, it)

\* next(rpos)
it_rnext(self, it) ==
    IF self.kind = "view" THEN bv_rnext(self.views[1], it)
    ELSE bg_rnext(self.views, it)

\* lpos._prev(): _BufferViewIterator._prev / _BufferGroupIterator._prev
\* (whose first branch reads self.buffer_group, an attribute that is not set)
it_prev(self, it) ==
    IF self.kind = "view" THEN [exc |-> "none", it |-> [idx |-> it.idx - 1]]
    ELSE IF it.buf_idx = 0 THEN [exc |-> "AttributeError", it |-> it]
    ELSE [exc |-> "none", it |-> [it EXCEPT !.buf_idx = @ - 1]]

\* rpos._prev(): _ReversedBufferViewIterator._prev /
\* _ReversedBufferGroupIterator._prev
it_rprev(self, it) ==
    IF self.kind = "view" THEN [exc |-> "none", it |-> [idx |-> it.idx + 1]]
    ELSE IF ~IndexOK(self.views, it.view_idx)
    THEN [exc |-> "IndexError", it |-> it]
    ELSE IF it.buf_idx = Len(GetItem(self.views, it.view_idx)) - 1
    THEN [exc |-> "none", it |-> [view_idx |-> it.view_idx + 1, buf_idx |-> 0]]
    ELSE [exc |-> "none", it |-> [it EXCEPT !.buf_idx = @ + 1]]

\* a.__lt__(b) of the four iterator classes, both over the same receiver
it_lt(self, a, b) ==
    IF self.kind = "view" THEN a.idx < b.idx
    ELSE \/ a.view_idx < b.view_idx
         \/ (a.view_idx = b.view_idx /\ a.buf_idx < b.buf_idx)

\* a.__eq__(b)
it_eq(self, a, b) ==
    IF self.kind = "view" THEN a.idx = b.idx
    ELSE a.view_idx = b.view_idx /\ a.buf_idx = b.buf_idx

\* a > b as functools.total_ordering derives it from __lt__ and __eq__
it_gt(self, a, b) == ~(it_lt(self, a, b) \/ it_eq(self, a, b))

\* the left loop of _BaseBufferView._strip_none (catch: StopIteration is
\* caught) and _strip_chars (it is not)
RECURSIVE left_loop(_, _, _, _, _)
left_loop(self, lpos, rpos, chars, catch) ==
    IF ~it_lt(self, lpos, rpos) THEN [exc |-> "none", it |-> lpos]
    ELSE LET n == it_next(self, lpos)
         IN  IF n.exc = "StopIteration" /\ catch
             THEN [exc |-> "none", it |-> n.it]
             ELSE IF n.exc # "none" THEN [exc |-> n.exc, it |-> n.it]
             ELSE IF ~Matches(n.ch, chars) THEN it_prev(self, n.it)
             ELSE left_loop(self, n.it, rpos, chars, catch)

\* the right loop of _strip_none and _strip_chars
RECURSIVE right_loop(_, _, _, _)
right_loop(self, lpos, rpos, chars) ==
    IF ~it_gt(self, rpos, lpos) THEN [exc |-> "none", it |-> rpos]
    ELSE LET n == it_rnext(self, rpos)
         IN  IF n.exc = "StopIteration" THEN [exc |-> "none", it |-> n.it]
             ELSE IF n.exc # "none" THEN [exc |-> n.exc, it |-> n.it]
             ELSE IF ~Matches(n.ch, chars) THEN it_rprev(self, n.it)
             ELSE right_loop(self, lpos, n.it, chars)

\* BufferView._slice_from_iterators / BufferGroup._slice_from_iterators
_slice_from_iterators(self, lpos, rpos) ==
    IF self.kind = "view"
    THEN LET r == getslice(self.views[1], lpos.idx, <<rpos.idx>>)
         IN  [exc |-> r.exc, self |-> [kind |-> "view", views |-> <<r.val>>]]
    ELSE IF ~IndexOK(self.views, lpos.view_idx) \/ ~IndexOK(self.views, rpos.view_idx)
         THEN [exc |-> "IndexError", self |-> self]
         ELSE LET start == getslice(GetItem(self.views, lpos.view_idx),
                                    lpos.buf_idx, <<>>)
                  middle == ListSlice(self.views, lpos.view_idx + 1, rpos.view_idx)
                  stop == getslice(GetItem(self.views, rpos.view_idx),
                                   0, <<rpos.buf_idx + 1>>)
              IN  IF start.exc # "none" THEN [exc |-> start.exc, self |-> self]
                  ELSE IF stop.exc # "none" THEN [exc |-> stop.exc, self |-> self]
                  ELSE [exc |-> "none",
                        self |-> [kind |-> "group",
                                  views |-> <<start.val>> \o middle \o <<stop.val>>]]

\* _BaseBufferView._strip_none (chars = <<>>) and _strip_chars
_strip(self, chars, left, right) ==
    LET r0 == reversed(self)
    IN  IF r0.exc # "none" THEN [exc |-> r0.exc, self |-> self]
        ELSE
          LET l == IF left
                   THEN left_loop(self, iter(self).it, r0.it, chars, chars = <<>>)
                   ELSE iter(self)
          IN  IF l.exc # "none" THEN [exc |-> l.exc, self |-> self]
              ELSE
                LET r == IF right THEN right_loop(self, l.it, r0.it, chars)
                         ELSE r0
                IN  IF r.exc # "none" THEN [exc |-> r.exc, self |-> self]
                    ELSE _slice_from_iterators(self, l.it, r.it)

\* strip / lstrip / rstrip of zero_buffer.py's BufferView (impl "zero") and of
\* fast_buffer.py's _BaseBufferView (impl "fast")
strip(impl, self, chars, left, right) ==
    IF impl = "zero" THEN z_strip(self.views[1], chars, left, right)
    ELSE _strip(self, chars, left, right)

\* the receivers: a view of either module, or a group of 1..MaxMembers
\* member views
StripReceivers ==
    {[impl |-> i, kind |-> "view", views |-> <<v>>] :
        i \in {"zero", "fast"}, v \in SeqsUpTo(StripBytes, MaxViewLen)}
    \cup
    {[impl |-> "fast", kind |-> "group", views |-> vs] :
        vs \in SeqsUpTo(SeqsUpTo(StripBytes, MaxMemberLen), MaxMembers) \ {<<>>}}

\* strip, lstrip or rstrip is about to be called
StripInit ==
    /\ input \in [self : StripReceivers,
                  chars : {<<>>} \cup {<<S>> : S \in StripSets},
                  left : BOOLEAN, right : BOOLEAN]
    /\ input.left \/ input.right
    /\ output = [n |-> 0, r1 |-> <<>>, r2 |-> <<>>]
    /\ freelist = <<>> /\ num_free = 0 /\ blocks = <<>>
    /\ refs = {} /\ out = {} /\ last = <<>>
    /\ block = <<>> /\ call = <<>>
    /\ views = <<>> /\ total_length = 0 /\ appended = <<>>

\* the call: r1 = self.strip(chars)
Strip ==
    /\ output.n = 0
    /\ output' = [output EXCEPT
                    !.n = 1,
                    !.r1 = strip(input.self.impl,
                                 [kind |-> input.self.kind, views |-> input.self.views],
                                 input.chars, input.left, input.right)]
    /\ UNCHANGED <<input, poolVars, bufVars, collVars>>

\* the same call on its own result: r2 = r1.strip(chars)
StripAgain ==
    /\ output.n = 1
    /\ output.r1.exc = "none"
    /\ output' = [output EXCEPT
                    !.n = 2,
                    !.r2 = strip(input.self.impl, output.r1.self,
                                 input.chars, input.left, input.right)]
    /\ UNCHANGED <<input, poolVars, bufVars, collVars>>

StripNext == Strip \/ StripAgain

SpecStrip == StripInit /\ [][StripNext]_vars

\* the bytes of a view or of a group: its members' bytes in order
RECURSIVE Concat(_)
Concat(vs) == IF vs = <<>> THEN <<>> ELSE Head(vs) \o Concat(Tail(vs))

BytesOf(self) == Concat(self.views)

\* the length of the longest prefix / suffix of s made of matching bytes
LeadRun(s, chars) ==
    CHOOSE k \in 0..Len(s) :
       /\ \A i \in 0..(k - 1) : Matches(Byte(s, i), chars)
       /\ k < Len(s) => ~Matches(Byte(s, k), chars)

TrailRun(s, chars) ==
    CHOOSE k \in 0..Len(s) :
       /\ \A i \in 0..(k - 1) : Matches(Byte(s, Len(s) - 1 - i), chars)
       /\ k < Len(s) => ~Matches(Byte(s, Len(s) - 1 - k), chars)

\* s without its maximal leading (left) and trailing (right) matching runs
Stripped(s, chars, left, right) ==
    LET a == IF left THEN LeadRun(s, chars) ELSE 0
        rest == Slice(s, a, Len(s))
        b == IF right THEN TrailRun(rest, chars) ELSE 0
    IN  Slice(rest, 0, Len(rest) - b)

(***************************************************************************)
(* C8: strip / lstrip / rstrip of a view or a group return the receiver's  *)
(* bytes without the maximal leading and trailing runs of matching bytes   *)
(* (nothing else removed, duplicated or reordered; empty when every byte   *)
(* matches), so a group gives what a view over its bytes gives.            *)
(***************************************************************************)
C8_StripMaximalRuns ==
    output.n >= 1 =>
       /\ output.r1.exc = "none"
       /\ BytesOf(output.r1.self)
             = Stripped(BytesOf(input.self), input.chars, input.left, input.right)

\* what C8 says, of views alone (both modules)
StripOfViews == input.self.kind = "view" => C8_StripMaximalRuns

(***************************************************************************)
(* C9: strip is idempotent: strip(v) and strip(strip(v)) return and hold   *)
(* the same bytes, for v a view or a group.                                *)
(***************************************************************************)
C9_StripIdempotent ==
    /\ output.n >= 1 => output.r1.exc = "none"
    /\ output.n = 2 =>
          /\ output.r2.exc = "none"
          /\ BytesOf(output.r2.self) = BytesOf(output.r1.self)

(***************************************************************************)
(* zero_buffer.py, BufferCollator.  A view is [keepalive, data, length]:   *)
(* the block it keeps alive (an index of CollatorBlocks, or 0 for the      *)
(* block collapse() allocates), the offset of its first byte in that       *)
(* block, and its length.                                                  *)
(***************************************************************************)
\* Buffer.view(start, stop) of a full block: every view that does not raise
CollatorViews ==
    {w \in [keepalive : 1..Len(CollatorBlocks), data : 0..MaxCollatorBlock,
            length : 0..MaxCollatorBlock] :
        w.data + w.length <= Len(CollatorBlocks[w.keepalive])}

\* BufferView.__bytes__: fresh holds the bytes of the block collapse() made
ViewBytes(w, fresh) ==
    LET mem == IF w.keepalive = 0 THEN fresh ELSE CollatorBlocks[w.keepalive]
    IN  Slice(mem, w.data, w.data + w.length)

\* append with the adjacency test left out: any view of the last view's block
\* is merged into it
append_MergeSameBlock(vs, tl, view) ==
    IF vs # <<>> /\ vs[Len(vs)].keepalive = view.keepalive
    THEN [views |-> [vs EXCEPT ![Len(vs)] =
                        [keepalive |-> vs[Len(vs)].keepalive,
                         data |-> vs[Len(vs)].data,
                         length |-> vs[Len(vs)].length + view.length]],
          total_length |-> tl + view.length]
    ELSE [views |-> Append(vs, view), total_length |-> tl + view.length]

\* BufferCollator.append
append(vs, tl, view) ==
    IF vs # <<>>
    THEN LET last_view == vs[Len(vs)]
         IN  IF /\ last_view.keepalive = view.keepalive
                /\ last_view.data + last_view.length = view.data
             THEN [views |-> [vs EXCEPT ![Len(vs)] =
                                 [keepalive |-> last_view.keepalive,
                                  data |-> last_view.data + 0,
                                  length |-> last_view.length + view.length]],
                   total_length |-> tl + view.length]
             ELSE [views |-> Append(vs, view), total_length |-> tl + view.length]
    ELSE [views |-> Append(vs, view), total_length |-> tl + view.length]

\* the memcpy loop of collapse(): data after the views from the k-th on are
\* copied to pos
RECURSIVE collapse_copy(_, _, _, _)
collapse_copy(vs, k, data, pos) ==
    IF k > Len(vs) THEN data
    ELSE LET view == vs[k]
         IN  collapse_copy(vs, k + 1,
                [i \in 1..Len(data) |->
                    IF pos < i /\ i <= pos + view.length
                    THEN Byte(ViewBytes(view, <<>>), i - pos - 1)
                    ELSE data[i]],
                pos + view.length)

\* BufferCollator.collapse: the result view and the block allocated for it
collapse(vs, tl) ==
    IF Len(vs) = 1
    THEN [result |-> vs[1], fresh |-> <<>>]
    ELSE [result |-> [keepalive |-> 0, data |-> 0, length |-> tl],
          fresh |-> collapse_copy(vs, 1, [i \in 1..tl |-> 0], 0)]

\* BufferCollator.__init__; output is the last call (ret and fresh: what
\* collapse returned; n, entries: how many views were appended to it and how
\* many it held; cycles: collapses so far)
CollatorInit ==
    /\ views = <<>>
    /\ total_length = 0
    /\ appended = <<>>
    /\ output = [op |-> "init", ret |-> <<>>, fresh |-> <<>>,
                 n |-> 0, entries |-> 0, cycles |-> 0]
    /\ input = <<>>
    /\ freelist = <<>> /\ num_free = 0 /\ blocks = <<>>
    /\ refs = {} /\ out = {} /\ last = <<>>
    /\ block = <<>> /\ call = <<>>

\* collator.append(view)
CollatorAppend ==
    /\ Len(appended) < MaxAppends
    /\ \E view \in CollatorViews :
          LET r == append(views, total_length, view)
          IN  /\ views' = r.views
              /\ total_length' = r.total_length
              /\ appended' = Append(appended, view)
    /\ output' = [output EXCEPT !.op = "append", !.ret = <<>>, !.fresh = <<>>,
                                !.n = 0, !.entries = 0]
    /\ UNCHANGED <<input, poolVars, bufVars>>

\* collator.collapse()
CollatorCollapse ==
    /\ output.cycles < MaxCycles
    /\ LET r == collapse(views, total_length)
       IN  output' = [op |-> "collapse", ret |-> r.result, fresh |-> r.fresh,
                      n |-> Len(appended), entries |-> Len(views),
                      cycles |-> output.cycles + 1]
    /\ views' = <<>>
    /\ total_length' = 0
    /\ appended' = <<>>
    /\ UNCHANGED <<input, poolVars, bufVars>>

CollatorNext == CollatorAppend \/ CollatorCollapse

SpecCollator == CollatorInit /\ [][CollatorNext]_vars

\* the bytes of a list of views, one after the other
RECURSIVE ConcatViews(_)
ConcatViews(vs) ==
    IF vs = <<>> THEN <<>>
    ELSE ViewBytes(Head(vs), <<>>) \o ConcatViews(Tail(vs))

RECURSIVE SumLengths(_)
SumLengths(vs) ==
    IF vs = <<>> THEN 0 ELSE Head(vs).length + SumLengths(Tail(vs))

(***************************************************************************)
(* C10: len(collator) is always the sum of the lengths of the views        *)
(* appended since the last collapse; collapse() returns a view whose bytes *)
(* are the concatenation of those views in order (empty when there are     *)
(* none) and leaves the collator with no views and length 0, in every      *)
(* append/collapse cycle.                                                  *)
(***************************************************************************)
C10_CollapseConcatenates ==
    /\ [](total_length = SumLengths(appended))
    /\ [][output'.op = "collapse" =>
            /\ ViewBytes(output'.ret, output'.fresh) = ConcatViews(appended)
            /\ output'.ret.length = SumLengths(appended)
            /\ views' = <<>>
            /\ total_length' = 0]_vars

\* in its second cycle the collator was given three views, merged two of them
\* and copied the two it then held into a new block
C10_MergedAndCopied ==
    /\ output.op = "collapse"
    /\ output.cycles = 2
    /\ output.n = 3
    /\ output.entries = 2
    /\ output.ret.keepalive = 0
    /\ output.ret.length >= 3

(***************************************************************************)
(* fast_buffer.py, BufferView.__add__.  The operands are views             *)
(* [keepalive, data, length] of the blocks CollatorBlocks; other is        *)
(* [type, view], type telling a BufferView from a BufferGroup and from     *)
(* any other value.                                                        *)
(***************************************************************************)
\* __add__ with the adjacency test left out
__add___MergeSameBlock(self, other) ==
    IF other.type = "view"
    THEN IF self.keepalive = other.view.keepalive
         THEN [kind |-> "view", exc |-> "none",
               views |-> <<[keepalive |-> self.keepalive, data |-> self.data + 0,
                            length |-> self.length + other.view.length]>>]
         ELSE [kind |-> "group", exc |-> "none", views |-> <<self, other.view>>]
    ELSE IF other.type = "group"
    THEN [kind |-> "none", exc |-> "NotImplementedError", views |-> <<>>]
    ELSE [kind |-> "NotImplemented", exc |-> "none", views |-> <<>>]

\* BufferView.__add__
__add__(self, other) ==
    IF other.type = "view"
    THEN IF /\ self.keepalive = other.view.keepalive
            /\ self.data + self.length = other.view.data
         THEN [kind |-> "view", exc |-> "none",
               views |-> <<[keepalive |-> self.keepalive, data |-> self.data + 0,
                            length |-> self.length + other.view.length]>>]
         ELSE [kind |-> "group", exc |-> "none", views |-> <<self, other.view>>]
    ELSE IF other.type = "group"
    THEN [kind |-> "none", exc |-> "NotImplementedError", views |-> <<>>]
    ELSE [kind |-> "NotImplemented", exc |-> "none", views |-> <<>>]

\* a + b is about to be evaluated, a a view and b a view, a group or
\* something else
AddInit ==
    /\ input \in [self : CollatorViews,
                  other : [type : {"view", "group", "other"}, view : CollatorViews]]
    /\ output = [op |-> "none"]
    /\ freelist = <<>> /\ num_free = 0 /\ blocks = <<>>
    /\ refs = {} /\ out = {} /\ last = <<>>
    /\ block = <<>> /\ call = <<>>
    /\ views = <<>> /\ total_length = 0 /\ appended = <<>>

\* a + b
Add ==
    /\ output.op = "none"
    /\ output' = [op |-> "add", ret |-> __add__(input.self, input.other)]
    /\ UNCHANGED <<input, poolVars, bufVars, collVars>>

AddNext == Add

SpecAdd == AddInit /\ [][AddNext]_vars

\* b starts at the byte after a's last byte, in the same block
Adjacent(a, b) == a.keepalive = b.keepalive /\ a.data + a.length = b.data

(***************************************************************************)
(* C11: for views a and b, a + b is one view over the combined range, of   *)
(* length len(a) + len(b) and with a's bytes followed by b's, when b       *)
(* starts right after a in the same block; otherwise it is a group of the  *)
(* two members a, b.                                                       *)
(***************************************************************************)
C11_AddMergesAdjacent ==
    (output.op = "add" /\ input.other.type = "view") =>
       LET a == input.self
           b == input.other.view
           r == output.ret
       IN  /\ r.exc = "none"
           /\ IF Adjacent(a, b)
              THEN /\ r.kind = "view"
                   /\ r.views[1].keepalive = a.keepalive
                   /\ r.views[1].length = a.length + b.length
                   /\ ViewBytes(r.views[1], <<>>)
                         = ViewBytes(a, <<>>) \o ViewBytes(b, <<>>)
              ELSE /\ r.kind = "group"
                   /\ r.views = <<a, b>>

\* two non-empty adjacent views were added and gave one view
C11_MergedTwo ==
    /\ output.op = "add"
    /\ input.other.type = "view"
    /\ input.self.length >= 1
    /\ input.other.view.length >= 1
    /\ output.ret.kind = "view"
    /\ output.ret.views[1].length >= 3

(***************************************************************************)
(* fast_buffer.py, BufferGroup: indexing and slicing.  A group is the      *)
(* list of the bytes of its member views.                                  *)
(***************************************************************************)
\* BufferGroup.__init__: self._length
group_len(vs) == Len(Concat(vs))

\* the groups indexed, sliced and searched: 1..MaxMembers member views
Groups == SeqsUpTo(SeqsUpTo(Bytes, MaxMemberLen), MaxMembers) \ {<<>>}

\* BufferGroup._find_positions_for_index, from the member view_idx (0-based)
\* on
RECURSIVE find_positions_loop(_, _, _)
find_positions_loop(vs, view_idx, idx) ==
    IF view_idx >= Len(vs)
    THEN [exc |-> "IndexError", view_idx |-> 0, idx |-> 0]
    ELSE IF idx < Len(vs[view_idx + 1])
    THEN [exc |-> "none", view_idx |-> view_idx, idx |-> idx]
    ELSE find_positions_loop(vs, view_idx + 1, idx - Len(vs[view_idx + 1]))

\* BufferGroup._find_positions_for_index
_find_positions_for_index(vs, idx) == find_positions_loop(vs, 0, idx)

\* BufferGroup.__getitem__ with an integer
group_getitem(vs, idx0) ==
    LET idx == IF idx0 < 0 THEN idx0 + group_len(vs) ELSE idx0
    IN  IF ~(0 <= idx /\ idx < group_len(vs))
        THEN [exc |-> "IndexError", val |-> 0]
        ELSE LET p == _find_positions_for_index(vs, idx)
             IN  IF p.exc # "none" THEN [exc |-> p.exc, val |-> 0]
                 ELSE [exc |-> "none", val |-> Byte(vs[p.view_idx + 1], p.idx)]

\* BufferGroup.__getitem__ with the slice a:b: a BufferView (kind "view",
\* views = <<its bytes>>) or a BufferGroup (kind "group")
group_getslice(vs, a, b) ==
    LET ix == SliceIndices(group_len(vs), a, <<b>>)
        start == ix.start
        stop == ix.stop
        fail(e) == [exc |-> e, kind |-> "none", views |-> <<>>]
    IN  IF stop < start THEN fail("ValueError")
        ELSE
          LET sp == _find_positions_for_index(vs, start)
          IN  IF sp.exc # "none" THEN fail(sp.exc)
              ELSE IF stop = group_len(vs)
              THEN [exc |-> "none", kind |-> "group",
                    views |-> <<getslice(vs[sp.view_idx + 1], sp.idx, <<>>).val>>
                              \o ListSlice(vs, sp.view_idx + 1, Len(vs))]
              ELSE
                LET tp == _find_positions_for_index(vs, stop)
                IN  IF tp.exc # "none" THEN fail(tp.exc)
                    ELSE IF sp.view_idx = tp.view_idx
                    THEN LET r == getslice(vs[sp.view_idx + 1], sp.idx, <<tp.idx>>)
                         IN  [exc |-> r.exc, kind |-> "view", views |-> <<r.val>>]
                    ELSE [exc |-> "none", kind |-> "group",
                          views |-> <<getslice(vs[sp.view_idx + 1], sp.idx, <<>>).val>>
                                    \o ListSlice(vs, sp.view_idx + 1, tp.view_idx - 1)
                                    \o <<getslice(vs[tp.view_idx + 1], 0, <<tp.idx>>).val>>]

\* g[i:j] is about to be evaluated
GroupSliceInit ==
    /\ input \in [g : Groups,
                  i : 0..(MaxMembers * MaxMemberLen),
                  j : 0..(MaxMembers * MaxMemberLen)]
    /\ output = [op |-> "none"]
    /\ freelist = <<>> /\ num_free = 0 /\ blocks = <<>>
    /\ refs = {} /\ out = {} /\ last = <<>>
    /\ block = <<>> /\ call = <<>>
    /\ views = <<>> /\ total_length = 0 /\ appended = <<>>

\* g[i:j]
GroupSlice ==
    /\ output.op = "none"
    /\ output' = [op |-> "slice", ret |-> group_getslice(input.g, input.i, input.j)]
    /\ UNCHANGED <<input, poolVars, bufVars, collVars>>

GroupSliceNext == GroupSlice

SpecGroupSlice == GroupSliceInit /\ [][GroupSliceNext]_vars

(***************************************************************************)
(* C12: for a group g and 0 <= i <= j <= len(g) the slice g[i:j] succeeds, *)
(* has length j - i, and its k-th byte is g[i + k], whatever members it    *)
(* starts in, ends in or spans.                                            *)
(***************************************************************************)
C12_GroupSliceBytes ==
    (/\ output.op = "slice"
     /\ input.i <= input.j /\ input.j <= group_len(input.g))
    => /\ output.ret.exc = "none"
       /\ Len(Concat(output.ret.views)) = input.j - input.i
       /\ \A k \in 0..(input.j - input.i - 1) :
             /\ group_getitem(input.g, input.i + k).exc = "none"
             /\ Byte(Concat(output.ret.views), k)
                   = group_getitem(input.g, input.i + k).val

(***************************************************************************)
(* BufferView.__getitem__ (the same code in both modules) on a view        *)
(* [keepalive, data, length] of the blocks CollatorBlocks.                 *)
(***************************************************************************)
\* the slice taken from the start of the block instead of from self._data
view_getslice_FromBlockStart(w, a, b) ==
    LET ix == SliceIndices(w.length, a, b)
    IN  IF ix.start > ix.stop THEN [exc |-> "ValueError", view |-> w]
        ELSE [exc |-> "none",
              view |-> [keepalive |-> w.keepalive, data |-> ix.start,
                        length |-> ix.stop - ix.start]]

\* BufferView.__getitem__ with the slice a:b (b <<>> for None)
view_getslice(w, a, b) ==
    LET ix == SliceIndices(w.length, a, b)
    IN  IF ix.start > ix.stop THEN [exc |-> "ValueError", view |-> w]
        ELSE [exc |-> "none",
              view |-> [keepalive |-> w.keepalive, data |-> w.data + ix.start,
                        length |-> ix.stop - ix.start]]

\* BufferView.__getitem__ with an integer
view_getitem(w, idx0) ==
    LET idx == IF idx0 < 0 THEN idx0 + w.length ELSE idx0
    IN  IF ~(0 <= idx /\ idx < w.length) THEN [exc |-> "IndexError", val |-> 0]
        ELSE [exc |-> "none", val |-> Byte(CollatorBlocks[w.keepalive], w.data + idx)]

\* v[i:j] is about to be evaluated
ViewSliceInit ==
    /\ input \in [v : CollatorViews,
                  i : 0..MaxCollatorBlock, j : 0..MaxCollatorBlock]
    /\ output = [op |-> "none"]
    /\ freelist = <<>> /\ num_free = 0 /\ blocks = <<>>
    /\ refs = {} /\ out = {} /\ last = <<>>
    /\ block = <<>> /\ call = <<>>
    /\ views = <<>> /\ total_length = 0 /\ appended = <<>>

\* v[i:j]
ViewSlice ==
    /\ output.op = "none"
    /\ output' = [op |-> "slice", ret |-> view_getslice(input.v, input.i, <<input.j>>)]
    /\ UNCHANGED <<input, poolVars, bufVars, collVars>>

ViewSliceNext == ViewSlice

SpecViewSlice == ViewSliceInit /\ [][ViewSliceNext]_vars

(***************************************************************************)
(* C13: for a view v and 0 <= i <= j <= len(v), v[i:j] is a view of length *)
(* j - i of v's block with v[i:j][k] = v[i + k] for 0 <= k < j - i.        *)
(***************************************************************************)
C13_ViewSlice ==
    (/\ output.op = "slice"
     /\ input.i <= input.j /\ input.j <= input.v.length)
    => /\ output.ret.exc = "none"
       /\ output.ret.view.length = input.j - input.i
       /\ output.ret.view.keepalive = input.v.keepalive
       /\ \A k \in 0..(input.j - input.i - 1) :
             /\ view_getitem(output.ret.view, k).exc = "none"
             /\ view_getitem(input.v, input.i + k).exc = "none"
             /\ view_getitem(output.ret.view, k).val
                   = view_getitem(input.v, input.i + k).val

\* a view that starts inside its block was sliced from its second byte on
C13_SlicedInside ==
    /\ output.op = "slice"
    /\ input.v.data >= 1
    /\ input.i >= 1
    /\ output.ret.exc = "none"
    /\ output.ret.view.length >= 1

(***************************************************************************)
(* BufferView.__eq__ (the same tests in both modules).  self is the bytes  *)
(* of the view; other is [type, len, data]: a BufferView or a bytes with   *)
(* its bytes in data, or a value of another type, whose len() is len[1],   *)
(* or raises TypeError when len is <<>>.                                   *)
(***************************************************************************)
\* what a view is compared with
EqOthers ==
    {[type |-> t, len |-> <<Len(d)>>, data |-> d] :
        t \in {"view", "bytes"}, d \in Inputs}
    \cup
    {[type |-> "other", len |-> n, data |-> <<>>] :
        n \in {<<>>} \cup {<<k>> : k \in 0..MaxInput}}

\* BufferView.__eq__
__eq__(self, other) ==
    IF other.len = <<>> THEN [exc |-> "TypeError", val |-> "none"]
    ELSE IF Len(self) # other.len[1] THEN [exc |-> "none", val |-> "False"]
    ELSE IF other.type = "view"
    THEN [exc |-> "none", val |-> IF self = other.data THEN "True" ELSE "False"]
    ELSE IF other.type = "bytes"
    THEN [exc |-> "none",
          val |-> IF \A i \in 0..(Len(self) - 1) : Byte(self, i) = Byte(other.data, i)
                  THEN "True" ELSE "False"]
    ELSE [exc |-> "none", val |-> "NotImplemented"]

\* v.__eq__(other) is about to be evaluated
EqInit ==
    /\ input \in [v : Inputs, other : EqOthers]
    /\ output = [op |-> "none"]
    /\ freelist = <<>> /\ num_free = 0 /\ blocks = <<>>
    /\ refs = {} /\ out = {} /\ last = <<>>
    /\ block = <<>> /\ call = <<>>
    /\ views = <<>> /\ total_length = 0 /\ appended = <<>>

\* v.__eq__(other)
Eq ==
    /\ output.op = "none"
    /\ output' = [op |-> "eq", ret |-> __eq__(input.v, input.other)]
    /\ UNCHANGED <<input, poolVars, bufVars, collVars>>

EqNext == Eq

SpecEq == EqInit /\ [][EqNext]_vars

(***************************************************************************)
(* C14: a view compared with a value that is neither a view nor a bytes    *)
(* answers NotImplemented, never False, whatever the length of the other   *)
(* value is or whether it has one.                                         *)
(***************************************************************************)
C14_EqNotComparable ==
    (output.op = "eq" /\ input.other.type = "other")
    => /\ output.ret.exc = "none"
       /\ output.ret.val = "NotImplemented"

(***************************************************************************)
(* zero_buffer.py, BufferView.splitlines: a generator.  output holds its   *)
(* locals i and j, the lines yielded so far, beside each of them the bytes *)
(* self[j:i] the step consumed (full), and done once it is exhausted.      *)
(***************************************************************************)
LF == 10
CR == 13

\* the inner while loop: i advanced to the next \n or \r, or to len(self)
RECURSIVE eol_scan(_, _)
eol_scan(v, i) ==
    IF i < Len(v) /\ Byte(v, i) # LF /\ Byte(v, i) # CR
    THEN eol_scan(v, i + 1) ELSE i

\* one round of the outer loop in which \r\n is not taken as a pair
splitlines_step_NoPair(v, keepends, st) ==
    LET i1 == eol_scan(v, st.i)
        i2 == IF i1 < Len(v) THEN i1 + 1 ELSE i1
        eol == IF i1 < Len(v) /\ keepends THEN i2 ELSE i1
    IN  [i |-> i2, j |-> i2,
         lines |-> Append(st.lines, getslice(v, st.j, <<eol>>).val),
         full |-> Append(st.full, Slice(v, st.j, i2)),
         done |-> FALSE]

\* one round of the outer loop of splitlines, up to and with its yield
splitlines_step(v, keepends, st) ==
    LET i1 == eol_scan(v, st.i)
        i2 == IF i1 < Len(v)
              THEN IF Byte(v, i1) = CR /\ i1 + 1 < Len(v) /\ Byte(v, i1 + 1) = LF
                   THEN i1 + 2 ELSE i1 + 1
              ELSE i1
        eol == IF i1 < Len(v) /\ keepends THEN i2 ELSE i1
    IN  [i |-> i2, j |-> i2,
         lines |-> Append(st.lines, getslice(v, st.j, <<eol>>).val),
         full |-> Append(st.full, Slice(v, st.j, i2)),
         done |-> FALSE]

\* v.splitlines(keepends) was called; nothing has run yet
SplitLinesInit ==
    /\ input \in [v : SeqsUpTo(LineBytes, MaxHay), keepends : BOOLEAN]
    /\ output = [i |-> 0, j |-> 0, lines |-> <<>>, full |-> <<>>, done |-> FALSE]
    /\ freelist = <<>> /\ num_free = 0 /\ blocks = <<>>
    /\ refs = {} /\ out = {} /\ last = <<>>
    /\ block = <<>> /\ call = <<>>
    /\ views = <<>> /\ total_length = 0 /\ appended = <<>>

\* next(): j < len(self), the generator yields a line
SplitLinesYield ==
    /\ ~output.done
    /\ output.j < Len(input.v)
    /\ output' = splitlines_step(input.v, input.keepends, output)
    /\ UNCHANGED <<input, poolVars, bufVars, collVars>>

\* next(): j >= len(self), the generator is exhausted
SplitLinesStop ==
    /\ ~output.done
    /\ ~(output.j < Len(input.v))
    /\ output' = [output EXCEPT !.done = TRUE]
    /\ UNCHANGED <<input, poolVars, bufVars, collVars>>

SplitLinesNext == SplitLinesYield \/ SplitLinesStop

SpecSplitLines == SplitLinesInit /\ [][SplitLinesNext]_vars

\* the length of the terminator a line ends with: 2 for \r\n, 1 for \n or
\* \r, 0 for none
TermLen(line) ==
    IF Len(line) >= 2 /\ line[Len(line) - 1] = CR /\ line[Len(line)] = LF THEN 2
    ELSE IF Len(line) >= 1 /\ line[Len(line)] \in {LF, CR} THEN 1
    ELSE 0

\* a line without its terminator
Chomp(line) == Slice(line, 0, Len(line) - TermLen(line))

NoEol(s) == \A k \in 1..Len(s) : s[k] \notin {LF, CR}

(***************************************************************************)
(* C15: splitlines ends; an empty view gives no lines; the consumed        *)
(* stretches are non-empty, add up to the view, each end with exactly one  *)
(* terminator (\n, \r or the pair \r\n, which is never split over two      *)
(* lines) except a last fragment without one; with keep_ends the lines are *)
(* those stretches, without it they are the stretches without their        *)
(* terminator and hold no \n or \r.                                        *)
(***************************************************************************)
C15_SplitLines ==
    /\ Len(output.lines) <= Len(input.v)
    /\ output.done =>
          LET full == output.full
              n == Len(full)
          IN  /\ Len(output.lines) = n
              /\ input.v = <<>> => n = 0
              /\ Concat(full) = input.v
              /\ \A k \in 1..n :
                    /\ Len(full[k]) >= 1
                    /\ NoEol(Chomp(full[k]))
                    /\ TermLen(full[k]) = 0 => k = n
                    /\ k < n => ~(full[k][Len(full[k])] = CR /\ full[k + 1][1] = LF)
                    /\ output.lines[k] = IF input.keepends THEN full[k]
                                         ELSE Chomp(full[k])
                    /\ ~input.keepends => NoEol(output.lines[k])

\* without keep_ends, a line ended by \r\n was followed by a last fragment
\* without terminator
C15_PairThenFragment ==
    /\ output.done
    /\ ~input.keepends
    /\ Len(output.full) = 2
    /\ TermLen(output.full[1]) = 2
    /\ Len(output.lines[1]) >= 1
    /\ TermLen(output.full[2]) = 0

(***************************************************************************)
(* find and rfind with an explicit range: the calls of SpecSearch, with    *)
(* start and stop given.                                                   *)
(***************************************************************************)
\* a view, a non-empty needle and a range 0 <= start <= stop <= len(v)
RangeInit ==
    /\ input \in [v : SeqsUpTo(SearchBytes, MaxHay),
                  needle : SeqsUpTo(SearchBytes, MaxNeedle) \ {<<>>},
                  start : 0..MaxHay, stop : {<<k>> : k \in 0..MaxHay}]
    /\ input.start <= input.stop[1]
    /\ input.stop[1] <= Len(input.v)
    /\ output = [op |-> "none", ret |-> 0]
    /\ freelist = <<>> /\ num_free = 0 /\ blocks = <<>>
    /\ refs = {} /\ out = {} /\ last = <<>>
    /\ block = <<>> /\ call = <<>>
    /\ views = <<>> /\ total_length = 0 /\ appended = <<>>

SpecRange == RangeInit /\ [][SearchNext]_vars

\* the offsets at which n occurs in h wholly inside [start, stop)
OccurrencesIn(h, n, start, stop) ==
    {i \in Occurrences(h, n) : start <= i /\ i + Len(n) <= stop}

(***************************************************************************)
(* C16: with 0 <= start <= stop <= len(v) and a non-empty needle N, find   *)
(* and rfind answer -1 or an offset i with start <= i and                  *)
(* i + len(N) <= stop, and -1 whenever N does not occur wholly inside      *)
(* [start, stop).                                                          *)
(***************************************************************************)
C16_MatchInsideRange ==
    output.op \in {"find", "rfind"} =>
       /\ \/ output.ret = -1
          \/ (input.start <= output.ret
              /\ output.ret + Len(input.needle) <= input.stop[1])
       /\ OccurrencesIn(input.v, input.needle, input.start, input.stop[1]) = {}
             => output.ret = -1

(***************************************************************************)
(* fast_buffer.py, BufferGroup.find.  Its member views answer with         *)
(* BufferView.find, which is find above.                                   *)
(***************************************************************************)
\* the for loop of BufferGroup.find, at the member k (1-based)
RECURSIVE group_find_loop(_, _, _, _, _, _)
group_find_loop(vs, needle, start, stop, k, overall_pos) ==
    IF k > Len(vs) THEN -1
    ELSE LET view == vs[k]
             view_start == IF start < Len(view) THEN start ELSE 0
             view_stop == IF stop < overall_pos + Len(view)
                          THEN <<stop - overall_pos>> ELSE NoStop
             pos == find(view, needle, view_start, view_stop)
         IN  IF pos # -1 THEN overall_pos + pos
             ELSE group_find_loop(vs, needle, start, stop, k + 1,
                                  overall_pos + Len(view))

\* BufferGroup.find
group_find(vs, needle, start, stop) ==
    LET stop1 == IF Truthy(stop) THEN stop[1] ELSE group_len(vs)
        start1 == IF start < 0 THEN 0 ELSE start
        stop2 == IF stop1 > group_len(vs) THEN group_len(vs) ELSE stop1
    IN  IF stop2 - start1 < 0 THEN [exc |-> "none", val |-> -1]
        ELSE IF Len(needle) = 0 THEN [exc |-> "none", val |-> start1]
        ELSE IF Len(needle) = 1
             THEN [exc |-> "none",
                   val |-> group_find_loop(vs, needle, start1, stop2, 1, 0)]
        ELSE [exc |-> "NotImplementedError", val |-> 0]

\* g.find(needle, start, stop) is about to be called, stop None or
\* start <= stop <= len(g)
GroupFindInit ==
    /\ input \in [g : Groups, needle : SeqsUpTo(Bytes, MaxInput),
                  start : 0..(MaxMembers * MaxMemberLen),
                  stop : {NoStop} \cup {<<k>> : k \in 0..(MaxMembers * MaxMemberLen)}]
    /\ input.start <= group_len(input.g)
    /\ input.stop # NoStop =>
          (input.start <= input.stop[1] /\ input.stop[1] <= group_len(input.g))
    /\ output = [op |-> "none"]
    /\ freelist = <<>> /\ num_free = 0 /\ blocks = <<>>
    /\ refs = {} /\ out = {} /\ last = <<>>
    /\ block = <<>> /\ call = <<>>
    /\ views = <<>> /\ total_length = 0 /\ appended = <<>>

\* g.find(needle, start, stop)
GroupFind ==
    /\ output.op = "none"
    /\ output' = [op |-> "find",
                  ret |-> group_find(input.g, input.needle, input.start, input.stop)]
    /\ UNCHANGED <<input, poolVars, bufVars, collVars>>

GroupFindNext == GroupFind

SpecGroupFind == GroupFindInit /\ [][GroupFindNext]_vars

(***************************************************************************)
(* C17: for a group g, a single byte c and 0 <= start <= stop <= len(g)    *)
(* (stop len(g) by default), g.find(c, start, stop) is the smallest i with *)
(* start <= i < stop and g[i] = c, or -1 when there is none: start and     *)
(* stop are offsets of the group, hits are translated by the lengths of    *)
(* the members before.                                                     *)
(***************************************************************************)
C17_GroupFindFirst ==
    (output.op = "find" /\ Len(input.needle) = 1) =>
       LET h == Concat(input.g)
           stop == IF input.stop = NoStop THEN Len(h) ELSE input.stop[1]
           hits == {i \in input.start..(stop - 1) : Byte(h, i) = input.needle[1]}
       IN  /\ output.ret.exc = "none"
           /\ IF hits = {} THEN output.ret.val = -1
              ELSE /\ output.ret.val \in hits
                   /\ \A i \in hits : output.ret.val <= i

(***************************************************************************)
(* A block that is written while views of it exist (fast_buffer.py; the    *)
(* Buffer methods are the same in zero_buffer.py).  block is the Buffer,   *)
(* call the last call, and output the set of views created so far, each    *)
(* with the bytes seen through it when it was created.                     *)
(***************************************************************************)
\* view() without the test of stop against writepos
buffer_view_NoStopCheck(blk, start, stop) ==
    LET stop1 == IF stop = <<>> THEN blk.writepos ELSE stop[1]
    IN  IF stop1 < start \/ ~(0 <= start /\ start <= blk.writepos)
           \/ stop1 > capacity(blk)
        THEN [exc |-> "ValueError", view |-> <<>>]
        ELSE [exc |-> "none",
              view |-> [keepalive |-> 1, data |-> 0 + start, length |-> stop1 - start]]

\* Buffer.view
buffer_view(blk, start, stop) ==
    LET stop1 == IF stop = <<>> THEN blk.writepos ELSE stop[1]
    IN  IF stop1 < start \/ ~(0 <= start /\ start <= blk.writepos)
           \/ stop1 > blk.writepos
        THEN [exc |-> "ValueError", view |-> <<>>]
        ELSE [exc |-> "none",
              view |-> [keepalive |-> 1, data |-> 0 + start, length |-> stop1 - start]]

\* the bytes seen through a view of the block: self._data[0 .. len(self) - 1];
\* bytes past the end of the block's array are not the block's (-1)
Observed(blk, w) ==
    [k \in 1..w.length |->
        IF w.data + k <= capacity(blk) THEN blk.data[w.data + k] ELSE -1]

\* a view as it is kept in output; by is the call that made it
Created(blk, w, by) == [view |-> w, seen |-> Observed(blk, w), by |-> by]

\* Buffer(pool, capacity)
AliasInit ==
    /\ block = [data |-> AliasBlock, writepos |-> 0]
    /\ call = [op |-> "init", exc |-> "none", inside |-> TRUE]
    /\ output = {}
    /\ input = <<>>
    /\ freelist = <<>> /\ num_free = 0 /\ blocks = <<>>
    /\ refs = {} /\ out = {} /\ last = <<>>
    /\ views = <<>> /\ total_length = 0 /\ appended = <<>>

\* block.add_bytes(s)
AliasAddBytes ==
    \E s \in Inputs :
       LET r == add_bytes(block, s)
       IN  /\ block' = r.blk
           /\ call' = [op |-> "add_bytes", exc |-> r.exc, inside |-> TRUE]
           /\ UNCHANGED <<input, output, poolVars, collVars>>

\* block.read_from(fd)
AliasReadFrom ==
    \E res \in -1..Len(AliasBlock), s \in [1..Len(AliasBlock) -> Bytes] :
       /\ res <= free(block)
       /\ LET r == read_from(block, res, s)
          IN  /\ block' = r.blk
              /\ call' = [op |-> "read_from", exc |-> r.exc, inside |-> TRUE]
              /\ UNCHANGED <<input, output, poolVars, collVars>>

\* block.view(start, stop); inside tells whether the arguments satisfied
\* 0 <= start <= stop <= writepos
AliasView ==
    /\ Cardinality(output) < MaxViews
    /\ \E start \in -1..(Len(AliasBlock) + 1),
          stop \in {<<>>} \cup {<<k>> : k \in -1..(Len(AliasBlock) + 1)} :
          LET r == buffer_view(block, start, stop)
              stop1 == IF stop = <<>> THEN block.writepos ELSE stop[1]
          IN  /\ call' = [op |-> "view", exc |-> r.exc,
                          inside |-> (0 <= start /\ start <= stop1
                                      /\ stop1 <= block.writepos)]
              /\ output' = IF r.exc = "none"
                           THEN output \cup {Created(block, r.view, "view")}
                           ELSE output
    /\ UNCHANGED <<block, input, poolVars, collVars>>

\* w[a:b] for a view w created before
AliasSlice ==
    /\ Cardinality(output) < MaxViews
    /\ \E w \in output, a \in -1..Len(AliasBlock),
          b \in {<<>>} \cup {<<k>> : k \in -1..Len(AliasBlock)} :
          LET r == view_getslice(w.view, a, b)
          IN  /\ call' = [op |-> "slice", exc |-> r.exc, inside |-> TRUE]
              /\ output' = IF r.exc = "none"
                           THEN output \cup {Created(block, r.view, "slice")}
                           ELSE output
    /\ UNCHANGED <<block, input, poolVars, collVars>>

\* a + b for views a, b created before: a new view when they are adjacent
AliasAdd ==
    /\ Cardinality(output) < MaxViews
    /\ \E a \in output, b \in output :
          LET r == __add__(a.view, [type |-> "view", view |-> b.view])
          IN  /\ call' = [op |-> "add", exc |-> r.exc, inside |-> TRUE]
              /\ output' = IF r.kind = "view"
                           THEN output \cup {Created(block, r.views[1], "add")}
                           ELSE output
    /\ UNCHANGED <<block, input, poolVars, collVars>>

AliasNext ==
    AliasAddBytes \/ AliasReadFrom \/ AliasView \/ AliasSlice \/ AliasAdd

SpecAlias == AliasInit /\ [][AliasNext]_vars

(***************************************************************************)
(* C18: while a block is not released, every view created of it lies       *)
(* within [0, writepos] and shows the bytes it showed when it was created; *)
(* a write changes no byte below the writepos it found; view(start, stop)  *)
(* is accepted only when 0 <= start <= stop <= writepos.                   *)
(***************************************************************************)
C18_ViewsStable ==
    /\ [](\A w \in output :
             /\ 0 <= w.view.data
             /\ w.view.data + w.view.length <= block.writepos
             /\ Observed(block, w.view) = w.seen)
    /\ [][/\ block'.writepos >= block.writepos
          /\ \A i \in 1..block.writepos : block'.data[i] = block.data[i]
          /\ (call'.op = "view" /\ call'.exc = "none") => call'.inside]_vars

\* the block was filled to its end while a view made by slicing and a view
\* made by adding two adjacent views, which ends below the new writepos,
\* existed
C18_WrittenBehindViews ==
    /\ call.op \in {"add_bytes", "read_from"}
    /\ call.exc = "none"
    /\ block.writepos = capacity(block)
    /\ \E w \in output : w.by = "slice" /\ w.view.data >= 1
    /\ \E w \in output : /\ w.by = "add" /\ w.view.length >= 2
                         /\ w.view.data + w.view.length < block.writepos

====
